---- MODULE Spec2Model ----
(***************************************************************************)
(* A model of the AVARA-XSNA web application:                              *)
(*   - the vegetation manager (src/src/js/vegetation-manager.js) and its   *)
(*     tree-manager variant,                                               *)
(*   - the post-processing pipeline built in src/src/js/app.js with the    *)
(*     depth-driven blur pass of src/src/js/custom-dof.js,                 *)
(*   - the start-up of src/src/js/app.js (init, loadAllResources,          *)
(*     completeSetup), and                                                 *)
(*   - playback (startAnimation, pauseAnimation, animate) with the audio   *)
(*     controller, the text manager and the walk-to-faceUp blend, and      *)
(*   - the resource loader's loadWithRetry (src/unnamed/part_014).         *)
(* Positions are integers in world units; the random draws of the code     *)
(* (Math.random) are nondeterministic choices from finite sets of values   *)
(* that lie in the range the code's expressions produce.                   *)
(***************************************************************************)
EXTENDS Integers, Sequences, FiniteSets, TLC

\* ------------------------------------------------------------------------
\* Program constants of vegetation-manager.js
\* ------------------------------------------------------------------------
GRASS_SPREAD == 10
TREE_SPREAD == 20
MIN_DISTANCE == 5
REMOVAL_Z == 20
GENERATION_Z == 0 - 70
TREE_CLEARANCE_FROM_CENTER == 5
\* the spawn loop of createNewVegetation: attempts < 10
MAX_ATTEMPTS == 10
\* GENERATION_Z - (Math.random() * 50)
SPAWN_JITTER == 50
\* the first, fixed grass patch of createInitialVegetation: (0, -40)
FIRST_PATCH_Z == 0 - 40
\* for (let z = -20; z > -200; z -= 25)
GRASS_ROW_START == 0 - 20
GRASS_ROW_STEP == 25
GRASS_FIELD_DEPTH == 200
\* const z = -100 - (i * 10)
TREE_ROW_START == 0 - 100
TREE_ROW_STEP == 10

\* ------------------------------------------------------------------------
\* Bounds of the model
\* ------------------------------------------------------------------------
\* grass rows are created while z > -GrassRowLimit (the code: 200)
GrassRowLimit == 21
\* number of tree rows (the code: 10)
TreeRows == 4
\* placement tries per tree row (the code: 30)
TreeTries == 2
\* populations and frames are started only while nextId <= MaxId
MaxId == 13

\* values of centerBiasedRandom() * GRASS_SPREAD, a subset of [-10, 10)
GrassXs == {0}
\* values of (Math.random() * 2 - 1) * TREE_SPREAD, a subset of [-20, 20)
TreeXs == {3, 6}
\* values of Math.random() * 50, a subset of [0, 50)
Jitters == {0, 4, 49}
\* numbers of meshes named Tree_* a loaded GLB holds
VariantCounts == {0, 1}
\* distances passed to updateVegetation (non-negative)
DeltaZs == {0, 45, 151}

VARIABLES
  grassPatches,     \* sequence of live grass patches
  trees,            \* sequence of live trees
  treeModels,       \* number of tree variant templates loaded
  resourcesLoaded,  \* [trees |-> BOOLEAN, grass |-> BOOLEAN]
  loads,            \* state of the two loader requests started by init
  scene,            \* ids of the vegetation objects attached to the scene
  disposed,         \* resources (geometry/material) that were disposed
  nextId,           \* identity of the next object created
  population,       \* sizes of the last initial population, per kind
  hist,             \* the last operation: its name, deltaZ, spawn calls
  \* --- the post-processing pipeline ---
  window,           \* window.innerWidth, window.innerHeight
  rendererSize,     \* the size given to renderer.setSize
  passes,           \* composer.passes, in the order of addPass
  composerSize,     \* the size of the composer's two buffers
  excludedLayers,   \* depthBlurPass.excludedLayers
  visible,          \* the visible flag of every scene object
  originalVisibility, \* depthBlurPass.originalVisibility
  depthTarget,      \* depthBlurPass.depthRenderTarget: size, frame, objects
  resolution,       \* the resolution uniform of each pass
  displacementTarget, \* displacementScenePass.displacementRenderTarget size
  frameNo,          \* number of frames rendered: the scene's current version
  frame,            \* what the last frame did: stages, depth sampled, ...
  phist,            \* the last pipeline operation
  \* --- the tree manager (tree-manager.js) ---
  tmTrees,          \* trees: sequence of live trees
  tmTreeModels,     \* treeModels: number of variant templates loaded
  tmResourcesLoaded, \* resourcesLoaded
  tmLoad,           \* state of the GLB request started by init
  tmScene,          \* ids of the trees attached to the scene
  tmNextId,         \* identity of the next tree created
  tmHist,           \* the last operation and the error it raised, if any
  \* --- the application (app.js) ---
  phase,            \* where init() stands in loadAllResources
  assets,           \* state of the loader request of every awaited asset
  vegetationWait,   \* the promise of initVegetation and its two timers
  earlyOnLoad,      \* manager.onLoad fired before the phase 3 loads began
  doubleCheck,      \* the 100 ms timer armed by completeSetup
  textManager,      \* the TextManager made by completeSetup
  audio,            \* isAudioLoaded, isPlaying, startTime, pauseTime
  isAnimating,      \* isAnimating
  animationId,      \* animationId; 0 stands for null
  rafPending,       \* ids of the frame callbacks the browser holds
  nextRafId,        \* the id the next requestAnimationFrame returns
  lastTime,         \* lastTime; -1 stands for null
  now,              \* the clock, in ticks
  ahist,            \* the last application step and what it did
  blend,            \* the walk-to-faceUp blend of animate: flags, weights
  \* --- the resource loader (loadWithRetry) ---
  retry             \* one call of loadWithRetry: its arguments and progress

vegVars == <<grassPatches, trees, treeModels, resourcesLoaded, loads, scene,
             disposed, nextId, population, hist>>

pipeVars == <<window, rendererSize, passes, composerSize, excludedLayers,
              visible, originalVisibility, depthTarget, resolution,
              displacementTarget, frameNo, frame, phist>>

tmVars == <<tmTrees, tmTreeModels, tmResourcesLoaded, tmLoad, tmScene,
           tmNextId, tmHist>>

bootVars == <<phase, assets, vegetationWait, earlyOnLoad, doubleCheck,
             textManager>>

loopVars == <<audio, isAnimating, animationId, rafPending, nextRafId,
             lastTime, now>>

appVars == <<bootVars, loopVars, ahist, blend>>

\* what start-up and pausing leave alone: the modules app.js does not
\* drive, and the blend state of animate
idleVars == <<tmVars, retry, blend>>

\* what the operations of one module leave alone: the state of the others
notVegVars == <<pipeVars, tmVars, appVars, retry>>

notPipeVars == <<vegVars, tmVars, appVars, retry>>

notTmVars == <<vegVars, pipeVars, appVars, retry>>

notRetryVars == <<vegVars, pipeVars, tmVars, appVars>>

\* ------------------------------------------------------------------------
\* Helpers
\* ------------------------------------------------------------------------
Abs(n) == IF n < 0 THEN 0 - n ELSE n

Max(a, b) == IF a > b THEN a ELSE b

Range(s) == {s[i] : i \in 1..Len(s)}

Ids(s) == {s[i].id : i \in 1..Len(s)}

RemoveAt(s, i) == [j \in 1..(Len(s) - 1) |-> IF j < i THEN s[j] ELSE s[j + 1]]

\* Object.values(resourcesLoaded).every(Boolean)
isLoaded(rl) == rl.trees /\ rl.grass

\* the module-level state a vegetation operation reads and writes
Cur == [grass |-> grassPatches, trees |-> trees, scene |-> scene,
        disposed |-> disposed, nextId |-> nextId, calls |-> 0]

\* a distance test that rejects nothing
tooClose_none(existing, x, z) == FALSE

\* existing.some(obj => (obj.x - x)^2 + (obj.z - z)^2 < MIN_DISTANCE^2)
tooClose(existing, x, z) ==
  \E i \in 1..Len(existing) :
    (existing[i].x - x) * (existing[i].x - x)
      + (existing[i].z - z) * (existing[i].z - z) < MIN_DISTANCE * MIN_DISTANCE

\* type === 'tree' && Math.abs(x) < TREE_CLEARANCE_FROM_CENTER
tooCloseToCamera(type, x) == type = "tree" /\ Abs(x) < TREE_CLEARANCE_FROM_CENTER

\* createGrassPatch: a new Grass mesh with its own geometry and material,
\* added to the scene and pushed on grassPatches
createGrassPatch(st, x, z, spawned) ==
  [st EXCEPT !.grass = Append(@, [id |-> st.nextId, x |-> x, z |-> z,
                                  res |-> st.nextId, spawned |-> spawned]),
             !.scene = @ \cup {st.nextId},
             !.nextId = @ + 1]

\* createTree: a placeholder box with its own geometry when no variant is
\* loaded, else a clone of variant v that shares the template's geometry
\* and material (resource 0 - v)
createTree(id, x, z, v, spawned) ==
  [id |-> id, x |-> x, z |-> z,
   res |-> IF treeModels = 0 THEN id ELSE 0 - v, spawned |-> spawned]

\* Math.floor(Math.random() * treeModels.length)
Variants == IF treeModels = 0 THEN {0} ELSE 1..treeModels

\* const tree = createTree(x, z); scene.add(tree); trees.push(tree)
addTree(st, x, z, v, spawned) ==
  [st EXCEPT !.trees = Append(@, createTree(st.nextId, x, z, v, spawned)),
             !.scene = @ \cup {st.nextId},
             !.nextId = @ + 1]

\* ------------------------------------------------------------------------
\* createInitialVegetation
\* ------------------------------------------------------------------------
\* variant of sceneAfterClear: the old objects are not removed from the scene
sceneAfterClear_none(st) == st.scene

\* [...grassPatches, ...trees].forEach(obj => scene.remove(obj))
sceneAfterClear(st) == st.scene \ (Ids(st.grass) \cup Ids(st.trees))

\* grassPatches = []; trees = []  (after the scene.remove of each)
clearExisting(st) ==
  [st EXCEPT !.scene = sceneAfterClear(st), !.grass = <<>>, !.trees = <<>>]

\* Math.max(2, Math.floor(6 * (1 - Math.abs(z) / 200)))
patchesInRow(z) ==
  Max(2, (6 * (GRASS_FIELD_DEPTH - Abs(z))) \div GRASS_FIELD_DEPTH)

\* the inner loop of a grass row: n patches at random x, no distance test
RECURSIVE grassRow(_, _, _)
grassRow(S, z, n) ==
  IF n = 0 THEN S
  ELSE grassRow({createGrassPatch(s, x, z, FALSE) : s \in S, x \in GrassXs},
                z, n - 1)

\* for (let z = -20; z > -200; z -= 25)
RECURSIVE grassRows(_, _)
grassRows(S, z) ==
  IF z > 0 - GrassRowLimit
  THEN grassRows(grassRow(S, z, patchesInRow(z)), z - GRASS_ROW_STEP)
  ELSE S

\* one try of a tree row: a random x, placed unless too close to a tree
treeTry(S, z) ==
  {IF tooClose(s.trees, x, z) THEN s ELSE addTree(s, x, z, v, FALSE) :
     s \in S, x \in TreeXs, v \in Variants}

\* for (let j = 0; j < 30; j++)
RECURSIVE treeRow(_, _, _)
treeRow(S, z, j) ==
  IF j >= TreeTries THEN S ELSE treeRow(treeTry(S, z), z, j + 1)

\* for (let i = 0; i < 10; i++) { const z = -100 - (i * 10); ... }
RECURSIVE treeRowsFrom(_, _)
treeRowsFrom(S, i) ==
  IF i >= TreeRows THEN S
  ELSE treeRowsFrom(treeRow(S, TREE_ROW_START - (i * TREE_ROW_STEP), 0), i + 1)

\* the set of states createInitialVegetation can leave, over its draws
createInitialVegetation(st) ==
  treeRowsFrom(
    grassRows({createGrassPatch(clearExisting(st), 0, FIRST_PATCH_Z, FALSE)},
              GRASS_ROW_START),
    0)

\* ------------------------------------------------------------------------
\* createNewVegetation
\* ------------------------------------------------------------------------
\* variant of spawnZ: the jitter is applied twice
spawnZ_doubled(j) == GENERATION_Z - (2 * j)

\* GENERATION_Z - (Math.random() * 50)
spawnZ(j) == GENERATION_Z - j

\* the (x, z) one attempt can draw
Candidates(type) ==
  {<<x, spawnZ(j)>> : x \in (IF type = "grass" THEN GrassXs ELSE TreeXs),
                      j \in Jitters}

\* !tooClose && !tooCloseToCamera
accepted(st, type, c) ==
  /\ ~tooClose(IF type = "grass" THEN st.grass ELSE st.trees, c[1], c[2])
  /\ ~tooCloseToCamera(type, c[1])

\* the body of the accepted branch
place(st, type, c) ==
  IF type = "grass"
  THEN {createGrassPatch(st, c[1], c[2], TRUE)}
  ELSE {addTree(st, c[1], c[2], v, TRUE) : v \in Variants}

\* the attempt loop, for (let attempts = 0; attempts < 10; attempts++): an
\* accepted draw places the instance and returns true; a rejected draw goes
\* to the next attempt; after MAX_ATTEMPTS rejected draws nothing is placed.
\* placed: the states an accepted draw leaves; rejects: some draw is rejected
RECURSIVE attemptLoop(_, _, _, _)
attemptLoop(st, placed, rejects, attempts) ==
  IF attempts >= MAX_ATTEMPTS THEN {st}
  ELSE placed \cup (IF rejects
                    THEN attemptLoop(st, placed, rejects, attempts + 1)
                    ELSE {})

\* the set of states createNewVegetation(scene, type) can leave
createNewVegetation(st, type) ==
  LET ok == {c \in Candidates(type) : accepted(st, type, c)}
      placed == UNION {place(st, type, c) : c \in ok}
  IN  attemptLoop(st, placed, ok # Candidates(type), 0)

\* ------------------------------------------------------------------------
\* updateVegetation
\* ------------------------------------------------------------------------
\* obj.position.z += deltaZ
moveAll(s, deltaZ) == [i \in 1..Len(s) |-> [s[i] EXCEPT !.z = @ + deltaZ]]

\* variant of crossed: the test is made against 0, not REMOVAL_Z
crossed_atZero(z) == z > 0

\* position.z > REMOVAL_Z
crossed(z) == z > REMOVAL_Z

\* variant of splice: the entry stays in the list
splice_none(s, i) == s

\* grassPatches.splice(i, 1) / trees.splice(i, 1)
splice(s, i) == RemoveAt(s, i)

\* scene.remove, geometry.dispose, material.dispose, splice of entry i
removeGrass(st, i) ==
  [st EXCEPT !.scene = @ \ {st.grass[i].id},
             !.disposed = @ \cup {st.grass[i].res},
             !.grass = splice(@, i),
             !.calls = @ + 1]

removeTree(st, i) ==
  [st EXCEPT !.scene = @ \ {st.trees[i].id},
             !.disposed = @ \cup {st.trees[i].res},
             !.trees = splice(@, i),
             !.calls = @ + 1]

\* for (let i = grassPatches.length - 1; i >= 0; i--)
RECURSIVE recycleGrass(_, _)
recycleGrass(S, i) ==
  IF i = 0 THEN S
  ELSE recycleGrass(
         UNION {IF crossed(s.grass[i].z)
                THEN createNewVegetation(removeGrass(s, i), "grass")
                ELSE {s} : s \in S},
         i - 1)

\* for (let i = trees.length - 1; i >= 0; i--)
RECURSIVE recycleTrees(_, _)
recycleTrees(S, i) ==
  IF i = 0 THEN S
  ELSE recycleTrees(
         UNION {IF crossed(s.trees[i].z)
                THEN createNewVegetation(removeTree(s, i), "tree")
                ELSE {s} : s \in S},
         i - 1)

\* variant of updateVegetation: the lists are recycled before they are moved
updateVegetation_recycleFirst(st, deltaZ) ==
  IF ~isLoaded(resourcesLoaded) THEN {st}
  ELSE {[s EXCEPT !.grass = moveAll(@, deltaZ), !.trees = moveAll(@, deltaZ)] :
          s \in recycleTrees(recycleGrass({st}, Len(st.grass)), Len(st.trees))}

\* the set of states updateVegetation(scene, deltaZ) can leave
updateVegetation(st, deltaZ) ==
  IF ~isLoaded(resourcesLoaded) THEN {st}
  ELSE LET moved == [st EXCEPT !.grass = moveAll(@, deltaZ),
                               !.trees = moveAll(@, deltaZ)]
       IN  recycleTrees(recycleGrass({moved}, Len(moved.grass)),
                        Len(moved.trees))

\* the value updateVegetation returns: { grass: 0, trees: 0 } when the
\* resources are not loaded, else the lengths of the lists it leaves
updateVegetationResult(loaded, grass, treeList) ==
  IF ~loaded THEN [grass |-> 0, trees |-> 0]
  ELSE [grass |-> Len(grass), trees |-> Len(treeList)]

\* variant of clearedFlags: dispose leaves the flags as they are
clearedFlags_kept == resourcesLoaded

\* resourcesLoaded = { trees: false, grass: false }
clearedFlags == [trees |-> FALSE, grass |-> FALSE]

\* ------------------------------------------------------------------------
\* Operations of the vegetation manager
\* ------------------------------------------------------------------------
Store(st) ==
  /\ grassPatches' = st.grass
  /\ trees' = st.trees
  /\ scene' = st.scene
  /\ disposed' = st.disposed
  /\ nextId' = st.nextId

\* init(scene, manager): starts the cloud texture load and the tree GLB load
VegInit ==
  /\ loads = [cloud |-> "idle", trees |-> "idle"]
  /\ loads' = [cloud |-> "pending", trees |-> "pending"]
  /\ hist' = [op |-> "init", dz |-> 0, calls |-> 0, streak |-> 0]
  /\ UNCHANGED <<grassPatches, trees, treeModels, resourcesLoaded, scene,
                 disposed, nextId, population>>
  /\ UNCHANGED notVegVars

\* textureLoader.load success callback
CloudLoaded ==
  /\ loads.cloud = "pending"
  /\ loads' = [loads EXCEPT !.cloud = "done"]
  /\ resourcesLoaded' = [resourcesLoaded EXCEPT !.grass = TRUE]
  /\ hist' = [op |-> "cloudLoaded", dz |-> 0, calls |-> 0, streak |-> 0]
  /\ UNCHANGED <<grassPatches, trees, treeModels, scene, disposed, nextId,
                 population>>
  /\ UNCHANGED notVegVars

\* textureLoader.load error callback: a default texture is substituted
CloudError ==
  /\ loads.cloud = "pending"
  /\ loads' = [loads EXCEPT !.cloud = "done"]
  /\ resourcesLoaded' = [resourcesLoaded EXCEPT !.grass = TRUE]
  /\ hist' = [op |-> "cloudError", dz |-> 0, calls |-> 0, streak |-> 0]
  /\ UNCHANGED <<grassPatches, trees, treeModels, scene, disposed, nextId,
                 population>>
  /\ UNCHANGED notVegVars

\* gltfLoader.load success callback: every mesh named Tree_* is pushed
TreesLoaded ==
  /\ loads.trees = "pending"
  /\ \E n \in VariantCounts : treeModels' = treeModels + n
  /\ loads' = [loads EXCEPT !.trees = "done"]
  /\ resourcesLoaded' = [resourcesLoaded EXCEPT !.trees = TRUE]
  /\ hist' = [op |-> "treesLoaded", dz |-> 0, calls |-> 0, streak |-> 0]
  /\ UNCHANGED <<grassPatches, trees, scene, disposed, nextId, population>>
  /\ UNCHANGED notVegVars

\* gltfLoader.load error callback
TreesError ==
  /\ loads.trees = "pending"
  /\ loads' = [loads EXCEPT !.trees = "done"]
  /\ resourcesLoaded' = [resourcesLoaded EXCEPT !.trees = TRUE]
  /\ hist' = [op |-> "treesError", dz |-> 0, calls |-> 0, streak |-> 0]
  /\ UNCHANGED <<grassPatches, trees, treeModels, scene, disposed, nextId,
                 population>>
  /\ UNCHANGED notVegVars

\* createInitialVegetationWhenReady(scene), resources loaded
CreateInitial ==
  /\ nextId <= MaxId
  /\ isLoaded(resourcesLoaded)
  /\ \E st \in createInitialVegetation(Cur) :
       /\ Store(st)
       /\ population' = [grass |-> Len(st.grass), trees |-> Len(st.trees)]
  /\ hist' = [op |-> "create", dz |-> 0, calls |-> 0,
              streak |-> IF hist.op = "create" THEN 2 ELSE 1]
  /\ UNCHANGED <<treeModels, resourcesLoaded, loads>>
  /\ UNCHANGED notVegVars

\* createInitialVegetationWhenReady(scene), resources not loaded: nothing
CreateNotReady ==
  /\ ~isLoaded(resourcesLoaded)
  /\ hist' = [op |-> "createNotReady", dz |-> 0, calls |-> 0, streak |-> 0]
  /\ UNCHANGED <<grassPatches, trees, treeModels, resourcesLoaded, loads,
                 scene, disposed, nextId, population>>
  /\ UNCHANGED notVegVars

\* updateVegetation(scene, deltaZ)
Update ==
  /\ nextId <= MaxId
  /\ \E deltaZ \in DeltaZs :
       \E st \in updateVegetation(Cur, deltaZ) :
         /\ Store(st)
         /\ hist' = [op |-> "update", dz |-> deltaZ, calls |-> st.calls,
                     streak |-> 0]
  /\ UNCHANGED <<treeModels, resourcesLoaded, loads, population>>
  /\ UNCHANGED notVegVars

\* dispose()
Dispose ==
  /\ disposed' = disposed \cup {grassPatches[i].res : i \in 1..Len(grassPatches)}
                          \cup {trees[i].res : i \in 1..Len(trees)}
  /\ grassPatches' = <<>>
  /\ trees' = <<>>
  /\ treeModels' = 0
  /\ resourcesLoaded' = clearedFlags
  /\ population' = [grass |-> 0, trees |-> 0]
  /\ hist' = [op |-> "dispose", dz |-> 0, calls |-> 0,
              streak |-> IF hist.op = "dispose" THEN 2 ELSE 1]
  /\ UNCHANGED <<loads, scene, nextId>>
  /\ UNCHANGED notVegVars

VegInitState ==
  /\ grassPatches = <<>>
  /\ trees = <<>>
  /\ treeModels = 0
  /\ resourcesLoaded = [trees |-> FALSE, grass |-> FALSE]
  /\ loads = [cloud |-> "idle", trees |-> "idle"]
  /\ scene = {}
  /\ disposed = {}
  /\ nextId = 1
  /\ population = [grass |-> 0, trees |-> 0]
  /\ hist = [op |-> "none", dz |-> 0, calls |-> 0, streak |-> 0]


\* ------------------------------------------------------------------------
\* The post-processing pipeline (app.js, custom-dof.js, shader-manager.js,
\* DisplacementScenePass.js)
\* ------------------------------------------------------------------------
\* const LAYERS = { DOFIGNORE: 2 }
DOFIGNORE == 2
\* DisplacementScenePass: 'resolution': new THREE.Vector2(1, 1)
DISPLACEMENT_DEFAULT_RESOLUTION == 1

\* frames are rendered only while frameNo < MaxFrames
MaxFrames == 3

Size(w, h) == [w |-> w, h |-> h]

\* viewport sizes the window takes
Sizes == {Size(800, 600), Size(1024, 768), Size(1280, 720)}

\* the objects of the scene the pipeline tells apart
Objects == {"cursorPlane", "skyPlane", "background"}

\* cursorPlane.plane.layers.set(LAYERS.DOFIGNORE); every other object keeps
\* the default layer 0
layersOf(o) == IF o = "cursorPlane" THEN {DOFIGNORE} ELSE {0}

\* layers excludeLayer is called with
Layers == {0, DOFIGNORE}

NoVisibility == [o \in {} |-> TRUE]

\* variant of ComposerPasses: the blur pass is added before the aberration
ComposerPasses_blurFirst == <<"taa", "blur", "chromatic", "bloom", "gamma">>

\* the passes of the composer, in the order of the addPass calls
ComposerPasses == <<"taa", "chromatic", "blur", "bloom", "gamma">>

\* object.layers.test({mask: 1 << layer}) for some excluded layer
onExcludedLayer(o, excluded) == layersOf(o) \cap excluded # {}

\* DepthDrivenBlurPass.render: hide the objects on excluded layers,
\* remembering their visible flag
hideExcluded(p, excluded) ==
  IF excluded = {} THEN p
  ELSE [p EXCEPT
          !.orig = [o \in {x \in Objects : onExcludedLayer(x, excluded)}
                      |-> p.visible[o]],
          !.visible = [o \in Objects |->
                         IF onExcludedLayer(o, excluded) THEN FALSE
                         ELSE p.visible[o]]]

\* variant of renderDepth: the depth target is not rendered again
renderDepth_none(p, n) == p

\* DepthDrivenBlurPass.render, 1.: the scene is rendered with the depth
\* material into depthRenderTarget; n is the frame being rendered
renderDepth(p, n) ==
  [p EXCEPT !.depth = [@ EXCEPT !.stamp = n,
                                !.drawn = {o \in Objects : p.visible[o]}],
            !.log = Append(@, "depth")]

\* variant of restoreVisibility: the flags are left as hidden
restoreVisibility_none(p) == p

\* DepthDrivenBlurPass.render: restore visibility, clear the map
restoreVisibility(p) ==
  IF DOMAIN p.orig # {}
  THEN [p EXCEPT !.visible = [o \in Objects |->
                                IF o \in DOMAIN p.orig THEN p.orig[o]
                                ELSE p.visible[o]],
                 !.orig = NoVisibility]
  ELSE p

\* DepthDrivenBlurPass.render, 2.: the full-screen quad is drawn with the
\* blur material, which samples tDepth = depthRenderTarget.texture
drawBlur(p) ==
  [p EXCEPT !.sampled = p.depth.stamp, !.log = Append(@, "blur")]

\* DepthDrivenBlurPass.render(renderer, writeBuffer, readBuffer)
blurPassRender(p, excluded, n) ==
  drawBlur(restoreVisibility(renderDepth(hideExcluded(p, excluded), n)))

\* the render of one pass of the composer
passRender(p, name, excluded, n) ==
  CASE name = "taa" ->
         [p EXCEPT !.log = Append(@, "color"),
                   !.colorDrawn = {o \in Objects : p.visible[o]}]
    [] name = "blur" -> blurPassRender(p, excluded, n)
    [] OTHER -> [p EXCEPT !.log = Append(@, name)]

\* composer.render(): every pass in order; the last one renders to screen
RECURSIVE composerRender(_, _, _, _, _)
composerRender(p, ps, i, excluded, n) ==
  IF i > Len(ps) THEN p
  ELSE composerRender(
         [passRender(p, ps[i], excluded, n) EXCEPT
            !.screen = IF i = Len(ps) THEN ps[i] ELSE @],
         ps, i + 1, excluded, n)

\* displacementScenePass.update(renderer, ...): renders the displacement
\* scene into its target and copies the renderer's size to the uniform
displacementUpdate(p, rsize) ==
  [p EXCEPT !.log = Append(@, "displacement"),
            !.res = [@ EXCEPT !.displacement = rsize]]

\* pass.setSize(width, height) of one pass of the composer: the blur pass
\* resizes its depth target and resolution, the bloom pass its resolution;
\* ChromaticAberrationPass, a ShaderPass, defines no setSize
passSetSize(q, name, sz) ==
  CASE name = "blur" ->
         [q EXCEPT !.depth = [@ EXCEPT !.size = sz],
                   !.res = [@ EXCEPT !.blur = sz]]
    [] name = "bloom" -> [q EXCEPT !.res = [@ EXCEPT !.bloom = sz]]
    [] OTHER -> q

\* composer.setSize(width, height): pass.setSize for every pass in passes
RECURSIVE composerSetSize(_, _, _, _)
composerSetSize(q, ps, i, sz) ==
  IF i > Len(ps) THEN q
  ELSE composerSetSize(passSetSize(q, ps[i], sz), ps, i + 1, sz)

\* setupPostProcessing(): the passes are constructed at the window's size
setupPostProcessing ==
  /\ passes = <<>>
  /\ passes' = ComposerPasses
  /\ composerSize' = rendererSize
  /\ resolution' = [blur |-> window, chromatic |-> window, bloom |-> window,
                    displacement |-> Size(DISPLACEMENT_DEFAULT_RESOLUTION,
                                          DISPLACEMENT_DEFAULT_RESOLUTION)]
  /\ depthTarget' = [size |-> window, stamp |-> 0, drawn |-> {}]
  /\ displacementTarget' = window
  /\ excludedLayers' = {DOFIGNORE}
  /\ phist' = [op |-> "setup"]
  /\ UNCHANGED <<window, rendererSize, visible, originalVisibility, frameNo,
                 frame>>

\* setupPostProcessing() called on its own
SetupPostProcessing ==
  /\ setupPostProcessing
  /\ UNCHANGED notPipeVars

\* depthBlurPass.excludeLayer(layer)
ExcludeLayer ==
  /\ passes # <<>>
  /\ \E layer \in Layers : excludedLayers' = excludedLayers \cup {layer}
  /\ phist' = [op |-> "excludeLayer"]
  /\ UNCHANGED <<window, rendererSize, passes, composerSize, visible,
                 originalVisibility, depthTarget, resolution,
                 displacementTarget, frameNo, frame>>
  /\ UNCHANGED notPipeVars

\* the window takes a new size and onWindowResize() runs
OnWindowResize ==
  /\ \E sz \in Sizes :
       /\ sz # window
       /\ window' = sz
       /\ rendererSize' = sz
       /\ IF passes = <<>>
          THEN UNCHANGED <<composerSize, depthTarget, resolution>>
          ELSE LET q == composerSetSize([depth |-> depthTarget,
                                         res |-> resolution], passes, 1, sz)
               IN  /\ composerSize' = sz
                   /\ depthTarget' = q.depth
                   /\ resolution' = q.res
  /\ phist' = [op |-> "resize"]
  /\ UNCHANGED <<passes, excludedLayers, visible, originalVisibility,
                 displacementTarget, frameNo, frame>>
  /\ UNCHANGED notPipeVars

\* the rendering of one frame by animate(): displacementScenePass.update
\* and composer.render()
composerFrame ==
  /\ frameNo' = frameNo + 1
  /\ LET p0 == [visible |-> visible, orig |-> originalVisibility,
                depth |-> depthTarget, res |-> resolution, log |-> <<>>,
                sampled |-> 0 - 1, colorDrawn |-> {}, screen |-> "none"]
         p == composerRender(displacementUpdate(p0, rendererSize), passes, 1,
                             excludedLayers, frameNo + 1)
     IN  /\ visible' = p.visible
         /\ originalVisibility' = p.orig
         /\ depthTarget' = p.depth
         /\ resolution' = p.res
         /\ frame' = [log |-> p.log, sampled |-> p.sampled,
                      colorDrawn |-> p.colorDrawn, screen |-> p.screen]
  /\ phist' = [op |-> "frame"]
  /\ UNCHANGED <<window, rendererSize, passes, composerSize, excludedLayers,
                 displacementTarget>>

\* one frame of a pipeline that was set up
RenderFrame ==
  /\ passes # <<>>
  /\ frameNo < MaxFrames
  /\ composerFrame
  /\ UNCHANGED notPipeVars

NoSize == Size(0, 0)

\* the pipeline before setupPostProcessing, at the size the window has
PipeStateAt(sz, vis) ==
  /\ window = sz
  /\ rendererSize = sz
  /\ passes = <<>>
  /\ composerSize = NoSize
  /\ excludedLayers = {}
  /\ visible = vis
  /\ originalVisibility = NoVisibility
  /\ depthTarget = [size |-> NoSize, stamp |-> 0, drawn |-> {}]
  /\ resolution = [blur |-> NoSize, chromatic |-> NoSize, bloom |-> NoSize,
                   displacement |-> NoSize]
  /\ displacementTarget = NoSize
  /\ frameNo = 0
  /\ frame = [log |-> <<>>, sampled |-> 0 - 1, colorDrawn |-> {},
              screen |-> "none"]
  /\ phist = [op |-> "none"]

\* ------------------------------------------------------------------------
\* The tree manager (src/unnamed/part_004, tree-manager.js)
\* ------------------------------------------------------------------------
spreadWidth == 20
minDistance == 5
removalZ == 30
generationZ == 0 - 70

\* tree-manager populations and frames are started only while
\* tmNextId <= MaxTreeId
MaxTreeId == 8

\* the module-level state a tree-manager operation reads and writes, and
\* the error the operation raised
TmCur == [trees |-> tmTrees, scene |-> tmScene, nextId |-> tmNextId,
          error |-> "none"]

\* distSquared < minDistance * minDistance for some existing tree
tmTooClose(existing, x, z) ==
  \E i \in 1..Len(existing) :
    (existing[i].x - x) * (existing[i].x - x)
      + (existing[i].z - z) * (existing[i].z - z) < minDistance * minDistance

\* Math.floor(Math.random() * treeModels.length)
TmVariants == IF tmTreeModels = 0 THEN {0} ELSE 1..tmTreeModels

\* createTree(x, z): with a variant loaded, a clone of it at (x, 0, z);
\* with none, the placeholder branch evaluates new THREE.Mesh(geometry,
\* material), and material is bound by no declaration of the module (its
\* const is commented out): the evaluation throws a ReferenceError
tmCreateTree(id, x, z, v) ==
  IF tmTreeModels = 0
  THEN [error |-> "ReferenceError"]
  ELSE [error |-> "none", tree |-> [id |-> id, x |-> x, z |-> z, variant |-> v]]

\* const tree = createTree(x, z); scene.add(tree); trees.push(tree): an
\* error createTree throws leaves the operation before the tree is added
tmAddTree(st, x, z, v) ==
  LET r == tmCreateTree(st.nextId, x, z, v)
  IN  IF r.error # "none" THEN [st EXCEPT !.error = r.error]
      ELSE [st EXCEPT !.trees = Append(@, r.tree),
                      !.scene = @ \cup {st.nextId},
                      !.nextId = @ + 1]

\* one try of a row of createInitialTrees; nothing runs after a throw
tmTreeTry(S, z) ==
  UNION {IF s.error # "none" THEN {s}
         ELSE {IF tmTooClose(s.trees, x, z) THEN s ELSE tmAddTree(s, x, z, v) :
                 x \in TreeXs, v \in TmVariants} : s \in S}

\* for (let j = 0; j < perrows; j++)
RECURSIVE tmTreeRow(_, _, _)
tmTreeRow(S, z, j) ==
  IF j >= TreeTries THEN S ELSE tmTreeRow(tmTreeTry(S, z), z, j + 1)

\* for (let i = 0; i < rows; i++) { const z = -100 - (i * 10); ... }
RECURSIVE tmTreeRowsFrom(_, _)
tmTreeRowsFrom(S, i) ==
  IF i >= TreeRows THEN S
  ELSE tmTreeRowsFrom(tmTreeRow(S, TREE_ROW_START - (i * TREE_ROW_STEP), 0),
                      i + 1)

\* the set of states createInitialTrees(scene) can leave
createInitialTrees(st) ==
  tmTreeRowsFrom({[st EXCEPT !.scene = @ \ Ids(st.trees), !.trees = <<>>]}, 0)

\* the set of states createNewTree(scene) can leave
createNewTree(st) ==
  LET all == {<<x, generationZ - j>> : x \in TreeXs, j \in Jitters}
      ok == {c \in all : ~tmTooClose(st.trees, c[1], c[2])}
      placed == {tmAddTree(st, c[1], c[2], v) : c \in ok, v \in TmVariants}
  IN  attemptLoop(st, placed, ok # all, 0)

\* for (let i = trees.length - 1; i >= 0; i--): a tree past removalZ is
\* removed from the scene and the list, and createNewTree is called
RECURSIVE tmRecycle(_, _)
tmRecycle(S, i) ==
  IF i = 0 THEN S
  ELSE tmRecycle(
         UNION {IF s.error = "none" /\ s.trees[i].z > removalZ
                THEN createNewTree([s EXCEPT !.scene = @ \ {s.trees[i].id},
                                             !.trees = RemoveAt(@, i)])
                ELSE {s} : s \in S},
         i - 1)

\* the set of states updateTrees(scene, deltaZ) can leave
updateTrees(st, deltaZ) ==
  tmRecycle({[st EXCEPT !.trees = moveAll(@, deltaZ)]}, Len(st.trees))

TmStore(st, op) ==
  /\ tmTrees' = st.trees
  /\ tmScene' = st.scene
  /\ tmNextId' = st.nextId
  /\ tmHist' = [op |-> op, error |-> st.error]

\* init(scene, loadingManager): starts the GLB load
TmInit ==
  /\ tmLoad = "idle"
  /\ tmLoad' = "pending"
  /\ tmHist' = [op |-> "init", error |-> "none"]
  /\ UNCHANGED <<tmTrees, tmTreeModels, tmResourcesLoaded, tmScene, tmNextId>>
  /\ UNCHANGED notTmVars

\* gltfLoader.load success callback: every mesh named Tree_* is pushed
TmTreesLoaded ==
  /\ tmLoad = "pending"
  /\ tmLoad' = "done"
  /\ \E n \in VariantCounts : tmTreeModels' = tmTreeModels + n
  /\ tmResourcesLoaded' = TRUE
  /\ tmHist' = [op |-> "treesLoaded", error |-> "none"]
  /\ UNCHANGED <<tmTrees, tmScene, tmNextId>>
  /\ UNCHANGED notTmVars

\* gltfLoader.load error callback: marked as loaded even if it failed
TmTreesError ==
  /\ tmLoad = "pending"
  /\ tmLoad' = "done"
  /\ tmResourcesLoaded' = TRUE
  /\ tmHist' = [op |-> "treesError", error |-> "none"]
  /\ UNCHANGED <<tmTrees, tmTreeModels, tmScene, tmNextId>>
  /\ UNCHANGED notTmVars

\* createInitialTrees(scene)
TmCreateInitialTrees ==
  /\ tmNextId <= MaxTreeId
  /\ \E st \in createInitialTrees(TmCur) : TmStore(st, "createInitialTrees")
  /\ UNCHANGED <<tmTreeModels, tmResourcesLoaded, tmLoad>>
  /\ UNCHANGED notTmVars

\* updateTrees(scene, deltaZ)
TmUpdateTrees ==
  /\ tmNextId <= MaxTreeId
  /\ \E deltaZ \in DeltaZs :
       \E st \in updateTrees(TmCur, deltaZ) : TmStore(st, "updateTrees")
  /\ UNCHANGED <<tmTreeModels, tmResourcesLoaded, tmLoad>>
  /\ UNCHANGED notTmVars

\* dispose()
TmDispose ==
  /\ tmTrees' = <<>>
  /\ tmTreeModels' = 0
  /\ tmResourcesLoaded' = FALSE
  /\ tmHist' = [op |-> "dispose", error |-> "none"]
  /\ UNCHANGED <<tmLoad, tmScene, tmNextId>>
  /\ UNCHANGED notTmVars

TmInitState ==
  /\ tmTrees = <<>>
  /\ tmTreeModels = 0
  /\ tmResourcesLoaded = FALSE
  /\ tmLoad = "idle"
  /\ tmScene = {}
  /\ tmNextId = 1
  /\ tmHist = [op |-> "none", error |-> "none"]

\* ------------------------------------------------------------------------
\* The application: the walk-to-faceUp blend of animate
\* Time is counted in ticks of 1/30 s; a weight w stands for w / WEIGHT_ONE.
\* ------------------------------------------------------------------------
\* const transitionTime = 12
TRANSITION_TIME == 360
\* const transitionDuration = 2.8
TRANSITION_DURATION == 84
\* the weight 1.0
WEIGHT_ONE == 84

\* the module-level state before the character GLB is loaded
BlendStart == [animations |-> FALSE, hasTransitioned |-> FALSE,
               isInTransition |-> FALSE, transitionStartTime |-> 0 - 1,
               walkWeight |-> WEIGHT_ONE, faceUpWeight |-> 0,
               audioTime |-> 0 - 1]

\* the eased progress of a blend that began at start and lasts duration:
\* 0.5 - 0.5 * cos(min((t - start) / duration, 1) * pi), which is 0 at
\* progress 0, 1 at progress 1 and rises in between
easedProgress(t, start, duration) ==
  IF t - start >= duration THEN WEIGHT_ONE
  ELSE ((t - start) * WEIGHT_ONE) \div duration

\* a transition that starts without marking hasTransitioned
startTransition_unmarked(b, t) ==
  [b EXCEPT !.isInTransition = TRUE, !.transitionStartTime = t,
            !.faceUpWeight = 0, !.walkWeight = WEIGHT_ONE]

\* hasTransitioned = true; isInTransition = true;
\* transitionStartTime = audioTime; the weights are reset
startTransition(b, t) ==
  [b EXCEPT !.hasTransitioned = TRUE, !.isInTransition = TRUE,
            !.transitionStartTime = t,
            !.faceUpWeight = 0, !.walkWeight = WEIGHT_ONE]

\* the blend continues over the given duration and ends at progress 1
continueTransition(b, t, duration) ==
  LET e == easedProgress(t, b.transitionStartTime, duration)
  IN  [b EXCEPT !.walkWeight = WEIGHT_ONE - e, !.faceUpWeight = e,
                !.isInTransition = ~(t - b.transitionStartTime >= duration)]

\* audio times of the frames around the transition
BlendTimes == {0, 350, 360, 400, 443, 444, 460, 500}

\* the transition logic of animate at audio time t
transitionStep(b0, t) ==
  LET b == [b0 EXCEPT !.audioTime = t]
      shouldBeInFaceUp == t >= TRANSITION_TIME
      shouldBeTransitioning ==
        t >= TRANSITION_TIME /\ t < TRANSITION_TIME + TRANSITION_DURATION
  IN  IF ~b.animations THEN b
      ELSE IF shouldBeTransitioning /\ ~b.hasTransitioned
                /\ ~b.isInTransition
      THEN startTransition(b, t)
      ELSE IF b.isInTransition /\ shouldBeTransitioning
      THEN continueTransition(b, t, TRANSITION_DURATION)
      ELSE IF b.isInTransition /\ shouldBeInFaceUp
                /\ ~shouldBeTransitioning
      THEN continueTransition(b, t, TRANSITION_DURATION \div 2)
      ELSE IF shouldBeInFaceUp /\ ~shouldBeTransitioning
                /\ ~b.hasTransitioned
      THEN IF b.walkWeight > 0 /\ b.faceUpWeight < WEIGHT_ONE
           THEN startTransition(b, t)
           ELSE IF b.faceUpWeight = WEIGHT_ONE
                THEN [b EXCEPT !.hasTransitioned = TRUE,
                               !.isInTransition = FALSE]
                ELSE b
      ELSE IF shouldBeInFaceUp /\ ~shouldBeTransitioning
                /\ b.hasTransitioned
      THEN [b EXCEPT !.isInTransition = FALSE, !.walkWeight = 0,
                     !.faceUpWeight = WEIGHT_ONE]
      ELSE IF ~shouldBeInFaceUp /\ (b.hasTransitioned \/ b.isInTransition)
      THEN [b EXCEPT !.hasTransitioned = FALSE, !.isInTransition = FALSE,
                     !.transitionStartTime = 0 - 1,
                     !.faceUpWeight = 0, !.walkWeight = WEIGHT_ONE]
      ELSE b

\* a frame of animate at an audio time that playback, or a jump of the
\* playback position, has reached
BlendFrame ==
  /\ \E t \in BlendTimes : blend' = transitionStep(blend, t)
  /\ UNCHANGED <<vegVars, pipeVars, tmVars, bootVars, loopVars, ahist,
                 retry>>

\* ------------------------------------------------------------------------
\* The application: start-up (app.js init, loadAllResources, completeSetup)
\* ------------------------------------------------------------------------
\* the two HDR textures awaited by phase 2 of loadAllResources
HdrAssets == {"txthdr", "hdri"}

\* the loader promises awaited by phase 3, next to initVegetation
RemainingAssets == {"displacement", "font", "glb", "titleGlb"}

Assets == HdrAssets \cup RemainingAssets

\* isSetupComplete: set by completeSetup only
isSetupComplete == phase = "ready"

\* the items the loading manager counts have all ended; the manager's
\* onLoad callback then sets allResourcesLoaded
allItemsEnded(as) ==
  /\ \A a \in Assets : as[a] \in {"loaded", "error"}
  /\ loads = [cloud |-> "done", trees |-> "done"]

\* allResourcesLoaded as loadAllResources reads it after phase 3
allResourcesLoaded(as) == earlyOnLoad \/ allItemsEnded(as)

AppStep(op) == [op |-> op, threw |-> "none", dt |-> 0, dist |-> 0,
                audioTime |-> 0, by |-> "none", resumed |-> 0 - 1]

\* VegetationManager.createInitialVegetationWhenReady(scene)
createInitialVegetationWhenReady ==
  IF isLoaded(resourcesLoaded)
  THEN /\ \E st \in createInitialVegetation(Cur) :
            /\ Store(st)
            /\ population' = [grass |-> Len(st.grass),
                              trees |-> Len(st.trees)]
       /\ hist' = [op |-> "create", dz |-> 0, calls |-> 0,
                   streak |-> IF hist.op = "create" THEN 2 ELSE 1]
       /\ UNCHANGED <<treeModels, resourcesLoaded, loads>>
  ELSE /\ hist' = [op |-> "createNotReady", dz |-> 0, calls |-> 0,
                   streak |-> 0]
       /\ UNCHANGED <<grassPatches, trees, treeModels, resourcesLoaded,
                      loads, scene, disposed, nextId, population>>

\* completeSetup(): the pipeline, the text manager (its init call is
\* commented out), the first vegetation and the 100 ms second attempt
completeSetup ==
  /\ setupPostProcessing
  /\ textManager' = [made |-> TRUE, scene |-> FALSE, font |-> FALSE,
                     textMeshes |-> {}]
  /\ createInitialVegetationWhenReady
  /\ doubleCheck' = "armed"
  /\ phase' = "ready"

\* loadAllResources after the phase 3 promises resolved: completeSetup at
\* once, or the wait for the manager with its 10 s timeout
afterRemainingTasks(as) ==
  IF allResourcesLoaded(as)
  THEN completeSetup
  ELSE /\ phase' = "managerWait"
       /\ UNCHANGED <<vegVars, pipeVars, textManager, doubleCheck>>

\* init(): phase 1 resolves at once while the audio loads in the
\* background, and phase 2 starts the two HDR loads
AppInit ==
  /\ phase = "boot"
  /\ phase' = "hdr"
  /\ assets' = [a \in Assets |-> IF a \in HdrAssets THEN "pending"
                                 ELSE "idle"]
  /\ audio' = [audio EXCEPT !.load = "pending"]
  /\ ahist' = AppStep("init")
  /\ UNCHANGED <<vegetationWait, earlyOnLoad, doubleCheck, textManager,
                 isAnimating, animationId, rafPending, nextRafId, lastTime,
                 now>>
  /\ UNCHANGED <<vegVars, pipeVars, idleVars>>

\* the success callback of a loader, and the continuation of
\* loadAllResources when the promise was the last one awaited
AssetLoaded ==
  /\ \E a \in Assets :
       /\ assets[a] = "pending"
       /\ IF a = "glb"
          THEN \* the clips Walk_01 and faceUp, when the file holds them
               \E clips \in BOOLEAN :
                 blend' = [blend EXCEPT !.animations = clips]
          ELSE UNCHANGED blend
       /\ LET as == [assets EXCEPT ![a] = "loaded"]
          IN  IF phase = "hdr" /\ \A b \in HdrAssets : as[b] = "loaded"
              THEN \* phase 3 starts: four loads and initVegetation
                   /\ assets' = [b \in Assets |->
                                   IF b \in RemainingAssets THEN "pending"
                                   ELSE as[b]]
                   /\ phase' = "rest"
                   /\ loads' = [cloud |-> "pending", trees |-> "pending"]
                   /\ hist' = [op |-> "init", dz |-> 0, calls |-> 0,
                               streak |-> 0]
                   /\ vegetationWait' = "waiting"
                   /\ earlyOnLoad' \in BOOLEAN
                   /\ UNCHANGED <<grassPatches, trees, treeModels,
                                  resourcesLoaded, scene, disposed, nextId,
                                  population>>
                   /\ UNCHANGED <<pipeVars, textManager, doubleCheck>>
              ELSE /\ assets' = as
                   /\ UNCHANGED <<vegetationWait, earlyOnLoad>>
                   /\ IF /\ phase = "rest"
                         /\ \A b \in RemainingAssets : as[b] = "loaded"
                         /\ vegetationWait = "resolved"
                      THEN afterRemainingTasks(as)
                      ELSE UNCHANGED <<phase, vegVars, pipeVars, textManager,
                                       doubleCheck>>
  /\ ahist' = AppStep("assetLoaded")
  /\ UNCHANGED <<loopVars, tmVars, retry>>

\* the error callback of a loader rejects its promise: an awaited one
\* rejects Promise.all, loadAllResources rethrows, init only logs
AssetError ==
  /\ \E a \in Assets :
       /\ assets[a] = "pending"
       /\ assets' = [assets EXCEPT ![a] = "error"]
       /\ phase' = IF \/ phase = "hdr" /\ a \in HdrAssets
                      \/ phase = "rest" /\ a \in RemainingAssets
                   THEN "failed" ELSE phase
  /\ ahist' = AppStep("assetError")
  /\ UNCHANGED <<vegetationWait, earlyOnLoad, doubleCheck, textManager>>
  /\ UNCHANGED <<loopVars, vegVars, pipeVars, idleVars>>

\* a loader of app.js that never invokes either callback
LoaderStalls ==
  /\ \E a \in Assets :
       /\ assets[a] = "pending"
       /\ assets' = [assets EXCEPT ![a] = "stalled"]
  /\ ahist' = AppStep("loaderStalls")
  /\ UNCHANGED <<phase, vegetationWait, earlyOnLoad, doubleCheck,
                 textManager>>
  /\ UNCHANGED <<loopVars, vegVars, pipeVars, idleVars>>

\* a loader of the vegetation manager that never invokes either callback
VegetationLoaderStalls ==
  /\ \E k \in {"cloud", "trees"} :
       /\ loads[k] = "pending"
       /\ loads' = [loads EXCEPT ![k] = "stalled"]
  /\ ahist' = AppStep("vegetationLoaderStalls")
  /\ UNCHANGED <<grassPatches, trees, treeModels, resourcesLoaded, scene,
                 disposed, nextId, population, hist>>
  /\ UNCHANGED <<bootVars, loopVars, pipeVars, idleVars>>

\* the promise of initVegetation resolved
vegetationResolved ==
  /\ vegetationWait' = "resolved"
  /\ IF phase = "rest" /\ \A b \in RemainingAssets : assets[b] = "loaded"
     THEN afterRemainingTasks(assets)
     ELSE UNCHANGED <<phase, vegVars, pipeVars, textManager, doubleCheck>>
  /\ UNCHANGED <<assets, earlyOnLoad>>
  /\ UNCHANGED <<loopVars, idleVars>>

\* checkVegetationLoaded on the 100 ms interval, the manager loaded
VegetationCheck ==
  /\ vegetationWait = "waiting"
  /\ isLoaded(resourcesLoaded)
  /\ vegetationResolved
  /\ ahist' = AppStep("vegetationCheck")

\* the 30 s timeout of initVegetation, vegetationLoaded still false
VegetationTimeout ==
  /\ vegetationWait = "waiting"
  /\ vegetationResolved
  /\ ahist' = AppStep("vegetationTimeout")

\* the 100 ms interval of the manager wait, allResourcesLoaded set
ManagerCheck ==
  /\ phase = "managerWait"
  /\ allResourcesLoaded(assets)
  /\ completeSetup
  /\ ahist' = AppStep("managerCheck")
  /\ UNCHANGED <<assets, vegetationWait, earlyOnLoad>>
  /\ UNCHANGED <<loopVars, idleVars>>

\* the 10 s timeout of the manager wait
ManagerTimeout ==
  /\ phase = "managerWait"
  /\ completeSetup
  /\ ahist' = AppStep("managerTimeout")
  /\ UNCHANGED <<assets, vegetationWait, earlyOnLoad>>
  /\ UNCHANGED <<loopVars, idleVars>>

\* the 100 ms timer of completeSetup: the second attempt
DoubleCheck ==
  /\ doubleCheck = "armed"
  /\ doubleCheck' = "fired"
  /\ createInitialVegetationWhenReady
  /\ ahist' = AppStep("doubleCheck")
  /\ UNCHANGED <<phase, assets, vegetationWait, earlyOnLoad, textManager>>
  /\ UNCHANGED <<loopVars, pipeVars, idleVars>>

\* AudioController.loadAudio: the buffer was decoded
AudioLoaded ==
  /\ audio.load = "pending"
  /\ audio' = [audio EXCEPT !.load = "done", !.isAudioLoaded = TRUE]
  /\ ahist' = AppStep("audioLoaded")
  /\ UNCHANGED <<bootVars, isAnimating, animationId, rafPending, nextRafId,
                 lastTime, now>>
  /\ UNCHANGED <<vegVars, pipeVars, idleVars>>

\* AudioController.loadAudio: fetch or decoding failed
AudioError ==
  /\ audio.load = "pending"
  /\ audio' = [audio EXCEPT !.load = "error"]
  /\ ahist' = AppStep("audioError")
  /\ UNCHANGED <<bootVars, isAnimating, animationId, rafPending, nextRafId,
                 lastTime, now>>
  /\ UNCHANGED <<vegVars, pipeVars, idleVars>>

\* stopped counts the source nodes stopped by pauseAudio whose 'ended'
\* event the browser has not delivered yet
NoAudio == [load |-> "idle", isAudioLoaded |-> FALSE, isPlaying |-> FALSE,
            startTime |-> 0, pauseTime |-> 0, stopped |-> 0]

NoTextManager == [made |-> FALSE, scene |-> FALSE, font |-> FALSE,
                  textMeshes |-> {}]

\* the application before init()
AppInitState ==
  /\ phase = "boot"
  /\ assets = [a \in Assets |-> "idle"]
  /\ vegetationWait = "off"
  /\ earlyOnLoad = FALSE
  /\ doubleCheck = "off"
  /\ textManager = NoTextManager
  /\ audio = NoAudio
  /\ isAnimating = FALSE
  /\ animationId = 0
  /\ rafPending = {}
  /\ nextRafId = 1
  /\ lastTime = 0 - 1
  /\ now = 0
  /\ ahist = AppStep("none")
  /\ blend = BlendStart

\* ------------------------------------------------------------------------
\* The application: playback (startAnimation, pauseAnimation, animate)
\* Time is counted in ticks of 1/30 s.
\* ------------------------------------------------------------------------
\* Math.min((time - lastTime) / 1000, 0.1): 0.1 s
DELTA_CAP == 3
\* Math.abs(currentTime - textItem.time) < 0.1
TEXT_WINDOW == 3
\* textManager.setMoveSpeed(15): world units per second
TEXT_MOVE_SPEED == 15
\* startZ: -100 and endZ: 10 of textManager.setTextConfig
TEXT_TRAVEL == 110
\* the first entry of textAppearTimes, { time: 0.593 }
textAppearTimes == <<[time |-> 18, text |-> "t1"]>>

\* the length of the audio buffer
AudioDuration == 20
\* audioBuffer.duration - 0.1 in the onended handler
ENDED_SLACK == 3
\* frames are requested while nextRafId <= MaxRafId
MaxRafId == 3
\* increments of the clock between two steps of playback
TimeSteps == {1, 17}
\* where the work of a frame may throw
ThrowPoints == {"none", "beforeVegetation", "beforeRender"}

Min(a, b) == IF a < b THEN a ELSE b

\* the elapsed time of a frame, uncapped
deltaTime_uncapped(time, last) ==
  IF last # 0 - 1 THEN time - last ELSE 0

\* lastTime !== null ? Math.min((time - lastTime) / 1000, 0.1) : 0
deltaTime(time, last) ==
  IF last # 0 - 1 THEN Min(time - last, DELTA_CAP) ELSE 0

\* 0.5 * (deltaTime * 60), deltaTime in ticks of 1/30 s
vegetationDistance(dt) == (dt * 60) \div (2 * 30)

\* AudioController.getCurrentTime()
getCurrentTime(au, t) ==
  IF ~au.isPlaying THEN au.pauseTime ELSE t - au.startTime

\* startAudio() without the offset: playback starts at position 0
startAudio_fromZero(au, t) ==
  IF ~au.isAudioLoaded THEN au
  ELSE [au EXCEPT !.startTime = t, !.isPlaying = TRUE]

\* AudioController.startAudio()
startAudio(au, t) ==
  IF ~au.isAudioLoaded THEN au
  ELSE [au EXCEPT !.startTime = t - au.pauseTime, !.isPlaying = TRUE]

\* AudioController.pauseAudio()
pauseAudio(au, t) ==
  IF ~au.isPlaying THEN au
  ELSE [au EXCEPT !.pauseTime = getCurrentTime(au, t), !.isPlaying = FALSE,
                  !.stopped = @ + 1]

\* sourceNode.onended, the handler every source node is given
onended(au, t) ==
  IF au.isPlaying /\ getCurrentTime(au, t) >= AudioDuration - ENDED_SLACK
  THEN [au EXCEPT !.isPlaying = FALSE, !.pauseTime = 0, !.startTime = 0]
  ELSE au

\* AudioController.update(deltaTime): the end of the buffer
audioUpdate(au, t) ==
  IF ~au.isAudioLoaded THEN au
  ELSE IF au.isPlaying /\ getCurrentTime(au, t) >= AudioDuration
       THEN [au EXCEPT !.isPlaying = FALSE, !.pauseTime = 0, !.startTime = 0]
       ELSE au

\* TextManager.update(currentTime, deltaTime, textAppearTimes)
textUpdate(tm, currentTime) ==
  IF ~tm.scene THEN tm
  ELSE LET due == {i \in 1..Len(textAppearTimes) :
                     /\ Abs(currentTime - textAppearTimes[i].time) < TEXT_WINDOW
                     /\ ~\E m \in tm.textMeshes :
                           /\ m.text = textAppearTimes[i].text
                           /\ Abs(m.creationTime - textAppearTimes[i].time)
                                < TEXT_WINDOW}
           \* createText returns null without a font
           made == IF tm.font
                   THEN {[text |-> textAppearTimes[i].text,
                          creationTime |-> currentTime] : i \in due}
                   ELSE {}
           all == tm.textMeshes \cup made
       IN  [tm EXCEPT !.textMeshes =
              {m \in all : (currentTime - m.creationTime) * TEXT_MOVE_SPEED
                             <= TEXT_TRAVEL * 30}]

\* the onTimeUpdate callback of AudioController.update: textManager?.update
onTimeUpdate(tm, au, t) ==
  IF au.isAudioLoaded /\ tm.made THEN textUpdate(tm, getCurrentTime(au, t))
  ELSE tm

\* animate(time) with isAnimating set: the next frame is requested first,
\* then the frame's work runs as far as the point where it throws
animate(time, last, au, waiting, throwAt, by) ==
  LET dt == deltaTime(time, last)
      dist == vegetationDistance(dt)
      au1 == audioUpdate(au, time)
      tm1 == onTimeUpdate(textManager, au, time)
      tm2 == IF tm1.made THEN textUpdate(tm1, getCurrentTime(au1, time))
             ELSE tm1
      au2 == audioUpdate(au1, time)
      tm3 == onTimeUpdate(tm2, au1, time)
  IN  /\ animationId' = nextRafId
      /\ rafPending' = waiting \cup {nextRafId}
      /\ nextRafId' = nextRafId + 1
      /\ lastTime' = time
      /\ now' = time
      /\ ahist' = [op |-> "frame", threw |-> throwAt, dt |-> dt,
                   dist |-> dist, audioTime |-> getCurrentTime(au1, time),
                   by |-> by,
                   resumed |-> IF by = "start" /\ au.isPlaying
                               THEN getCurrentTime(au, time) ELSE 0 - 1]
      /\ IF throwAt = "beforeVegetation"
         THEN /\ audio' = au1
              /\ textManager' = tm2
              /\ UNCHANGED <<vegVars, pipeVars, blend>>
         ELSE /\ audio' = au2
              /\ textManager' = tm3
              /\ \E st \in updateVegetation(Cur, dist) :
                   /\ Store(st)
                   /\ hist' = [op |-> "update", dz |-> dist,
                               calls |-> st.calls, streak |-> 0]
              /\ UNCHANGED <<treeModels, resourcesLoaded, loads, population>>
              /\ IF throwAt = "beforeRender"
                 THEN UNCHANGED <<pipeVars, blend>>
                 ELSE /\ blend' = transitionStep(blend,
                                                  getCurrentTime(au, time))
                      /\ composerFrame

\* cancelAnimationFrame(id) as a call without effect
cancelAnimationFrame_ignored(waiting, id) == waiting

\* cancelAnimationFrame(id)
cancelAnimationFrame(waiting, id) == waiting \ {id}

\* if (isAnimating) pauseAnimation(); of the Space key handler and of
\* the overlay's onPlayPause, as a test that never holds
togglePauses_never(animating) == FALSE

\* if (isAnimating) pauseAnimation(); else startAnimation();
togglePauses(animating) == animating

\* the Space key or the overlay's play button while not animating:
\* startAnimation()
StartAnimation ==
  /\ isSetupComplete
  /\ ~togglePauses(isAnimating)
  /\ nextRafId <= MaxRafId
  /\ isAnimating' = TRUE
  /\ \E step \in TimeSteps : \E throwAt \in ThrowPoints :
       animate(now + step, 0 - 1, startAudio(audio, now + step), rafPending,
               throwAt, "start")
  /\ UNCHANGED <<phase, assets, vegetationWait, earlyOnLoad, doubleCheck>>
  /\ UNCHANGED <<tmVars, retry>>

\* the Space key or the overlay's pause button while animating:
\* pauseAnimation()
PauseAnimation ==
  /\ isSetupComplete
  /\ togglePauses(isAnimating)
  /\ isAnimating
  /\ audio' = pauseAudio(audio, now)
  /\ ahist' = [AppStep("pause") EXCEPT
                 !.audioTime = getCurrentTime(audio, now)]
  /\ IF animationId # 0
     THEN /\ rafPending' = cancelAnimationFrame(rafPending, animationId)
          /\ animationId' = 0
     ELSE UNCHANGED <<rafPending, animationId>>
  /\ isAnimating' = FALSE
  /\ UNCHANGED <<nextRafId, lastTime, now>>
  /\ UNCHANGED <<bootVars, vegVars, pipeVars, idleVars>>

\* the browser runs a frame callback it holds: animate(time)
FrameCallback ==
  /\ nextRafId <= MaxRafId
  /\ \E id \in rafPending : \E step \in TimeSteps :
       IF ~isAnimating
       THEN \* if (!isAnimating) return;
            /\ rafPending' = rafPending \ {id}
            /\ now' = now + step
            /\ ahist' = AppStep("idleCallback")
            /\ UNCHANGED <<audio, textManager, animationId, nextRafId,
                           lastTime, vegVars, pipeVars, blend>>
       ELSE \E throwAt \in ThrowPoints :
              animate(now + step, lastTime, audio, rafPending \ {id}, throwAt,
                      "callback")
  /\ UNCHANGED isAnimating
  /\ UNCHANGED <<phase, assets, vegetationWait, earlyOnLoad, doubleCheck>>
  /\ UNCHANGED <<tmVars, retry>>

\* the browser delivers the 'ended' event of a source node that
\* pauseAudio stopped. (The event of a node that played to the end of the
\* buffer runs the same handler, which then writes what update() writes
\* in the frame that sees the end.)
SourceEnded ==
  /\ audio.stopped > 0
  /\ audio' = onended([audio EXCEPT !.stopped = @ - 1], now)
  /\ ahist' = AppStep("ended")
  /\ UNCHANGED <<isAnimating, animationId, rafPending, nextRafId, lastTime,
                 now>>
  /\ UNCHANGED <<bootVars, vegVars, pipeVars, idleVars>>

\* the pipeline as setupPostProcessing leaves it
PipeReadyState ==
  /\ window = Size(800, 600)
  /\ rendererSize = window
  /\ passes = ComposerPasses
  /\ composerSize = rendererSize
  /\ resolution = [blur |-> window, chromatic |-> window, bloom |-> window,
                   displacement |-> Size(DISPLACEMENT_DEFAULT_RESOLUTION,
                                         DISPLACEMENT_DEFAULT_RESOLUTION)]
  /\ depthTarget = [size |-> window, stamp |-> 0, drawn |-> {}]
  /\ displacementTarget = window
  /\ excludedLayers = {DOFIGNORE}
  /\ visible = [o \in Objects |-> TRUE]
  /\ originalVisibility = NoVisibility
  /\ frameNo = 0
  /\ frame = [log |-> <<>>, sampled |-> 0 - 1, colorDrawn |-> {},
              screen |-> "none"]
  /\ phist = [op |-> "setup"]

\* the vegetation as completeSetup leaves it: the first population, or
\* nothing when initVegetation timed out before the loads finished
VegReadyState ==
  /\ disposed = {}
  /\ \/ /\ resourcesLoaded = [trees |-> TRUE, grass |-> TRUE]
        /\ loads = [cloud |-> "done", trees |-> "done"]
        /\ treeModels \in VariantCounts
        /\ \E st \in createInitialVegetation(
                       [grass |-> <<>>, trees |-> <<>>, scene |-> {},
                        disposed |-> {}, nextId |-> 1, calls |-> 0]) :
             /\ grassPatches = st.grass
             /\ trees = st.trees
             /\ scene = st.scene
             /\ nextId = st.nextId
             /\ population = [grass |-> Len(st.grass),
                              trees |-> Len(st.trees)]
        /\ hist = [op |-> "create", dz |-> 0, calls |-> 0, streak |-> 1]
     \/ /\ resourcesLoaded = [trees |-> FALSE, grass |-> FALSE]
        /\ loads = [cloud |-> "stalled", trees |-> "stalled"]
        /\ treeModels = 0
        /\ grassPatches = <<>>
        /\ trees = <<>>
        /\ scene = {}
        /\ nextId = 1
        /\ population = [grass |-> 0, trees |-> 0]
        /\ hist = [op |-> "createNotReady", dz |-> 0, calls |-> 0,
                   streak |-> 0]

\* the application as completeSetup and its 100 ms timer leave it
AppReadyState ==
  /\ phase = "ready"
  /\ assets = [a \in Assets |-> "loaded"]
  /\ vegetationWait = "resolved"
  /\ earlyOnLoad = TRUE
  /\ doubleCheck = "fired"
  /\ textManager = [made |-> TRUE, scene |-> FALSE, font |-> FALSE,
                    textMeshes |-> {}]
  /\ \/ audio = [NoAudio EXCEPT !.load = "done", !.isAudioLoaded = TRUE]
     \/ audio = [NoAudio EXCEPT !.load = "error"]
  /\ isAnimating = FALSE
  /\ animationId = 0
  /\ rafPending = {}
  /\ nextRafId = 1
  /\ lastTime = 0 - 1
  /\ now = 0
  /\ ahist = AppStep("doubleCheck")
  /\ blend \in {[BlendStart EXCEPT !.animations = clips] :
                  clips \in BOOLEAN}

\* ------------------------------------------------------------------------
\* The resource loader: loadWithRetry(loadFn, maxRetries, delay)
\* (src/unnamed/part_014)
\* ------------------------------------------------------------------------
\* values of the argument maxRetries: 0..MaxRetriesArg
MaxRetriesArg == 3
\* values of the argument delay, in ms
Delays == {0, 500, 1000}
\* what one call of loadFn may do: return a value, throw an Error, or
\* throw undefined
LoadOutcomes ==
  {[ok |-> TRUE, value |-> "asset", type |-> "none", message |-> "none"],
   [ok |-> FALSE, value |-> "none", type |-> "Error", message |-> "e1"],
   [ok |-> FALSE, value |-> "none", type |-> "Error", message |-> "e2"],
   [ok |-> FALSE, value |-> "none", type |-> "undefined",
    message |-> "none"]}

\* let lastError; before the first catch
NoError == [type |-> "undefined", message |-> "none"]

RetryIdle == [state |-> "idle", maxRetries |-> 0, delay |-> 0, i |-> 0,
              calls |-> 0, lastError |-> NoError, result |-> "none",
              error |-> [type |-> "none", attempts |-> 0,
                         last |-> "none"]]

\* throw new Error(`Failed after ${maxRetries} attempts:
\* ${lastError.message}`): reading .message of undefined is a TypeError
failedAfter(r) ==
  [r EXCEPT !.state = "rejected",
            !.error = IF r.lastError.type = "undefined"
                      THEN [type |-> "TypeError", attempts |-> 0,
                            last |-> "none"]
                      ELSE [type |-> "Error", attempts |-> r.maxRetries,
                            last |-> r.lastError.message]]

\* the head of the for loop: i < maxRetries
retryLoop(r) ==
  IF r.i < r.maxRetries THEN [r EXCEPT !.state = "calling"]
  ELSE failedAfter(r)

\* loadWithRetry(loadFn, maxRetries, delay) is called
RetryStart ==
  /\ retry.state = "idle"
  /\ \E m \in 0..MaxRetriesArg : \E d \in Delays :
       retry' = retryLoop([RetryIdle EXCEPT !.maxRetries = m, !.delay = d])
  /\ UNCHANGED notRetryVars

\* await loadFn() settles: the value is returned, or the catch block runs
RetryAttempt ==
  /\ retry.state = "calling"
  /\ \E o \in LoadOutcomes :
       LET r == [retry EXCEPT !.calls = @ + 1]
       IN  IF o.ok
           THEN retry' = [r EXCEPT !.state = "resolved", !.result = o.value]
           ELSE LET c == [r EXCEPT !.lastError = [type |-> o.type,
                                                  message |-> o.message]]
                IN  IF c.i < c.maxRetries - 1
                    THEN retry' = [c EXCEPT !.state = "waiting"]
                    ELSE retry' = retryLoop([c EXCEPT !.i = @ + 1])
  /\ UNCHANGED notRetryVars

\* the setTimeout of the catch block fires: the delay doubles and the
\* loop goes on
RetryDelayElapsed ==
  /\ retry.state = "waiting"
  /\ retry' = retryLoop([retry EXCEPT !.delay = @ * 2, !.i = @ + 1])
  /\ UNCHANGED notRetryVars

\* ------------------------------------------------------------------------
\* Specifications
\* ------------------------------------------------------------------------
vars == <<vegVars, pipeVars, tmVars, appVars, retry>>

\* the vegetation manager, the pipeline not yet set up
Init ==
  /\ VegInitState
  /\ retry = RetryIdle
  /\ PipeStateAt(Size(800, 600), [o \in Objects |-> TRUE])
  /\ TmInitState
  /\ AppInitState

Next ==
  \/ VegInit
  \/ CloudLoaded
  \/ CloudError
  \/ TreesLoaded
  \/ TreesError
  \/ CreateInitial
  \/ CreateNotReady
  \/ Update
  \/ Dispose

Spec == Init /\ [][Next]_vars

\* the pipeline, over every viewport size and visibility of the objects
PipeInit ==
  /\ VegInitState
  /\ retry = RetryIdle
  /\ TmInitState
  /\ AppInitState
  /\ \E sz \in Sizes : \E vis \in [Objects -> BOOLEAN] : PipeStateAt(sz, vis)

PipeNext ==
  \/ SetupPostProcessing
  \/ ExcludeLayer
  \/ OnWindowResize
  \/ RenderFrame

PipeSpec == PipeInit /\ [][PipeNext]_vars

\* the tree manager on its own
TreeNext ==
  \/ TmInit
  \/ TmTreesLoaded
  \/ TmTreesError
  \/ TmCreateInitialTrees
  \/ TmUpdateTrees
  \/ TmDispose

TreeSpec == Init /\ [][TreeNext]_vars

\* start-up: init() to completeSetup and the timers it leaves armed
BootNext ==
  \/ AppInit
  \/ AssetLoaded
  \/ AssetError
  \/ LoaderStalls
  \/ VegetationLoaderStalls
  \/ CloudLoaded
  \/ CloudError
  \/ TreesLoaded
  \/ TreesError
  \/ VegetationCheck
  \/ VegetationTimeout
  \/ ManagerCheck
  \/ ManagerTimeout
  \/ DoubleCheck
  \/ AudioLoaded
  \/ AudioError

BootSpec == Init /\ [][BootNext]_vars

\* playback: the set-up application driven by the keyboard, the overlay
\* and the browser's frame callbacks
LoopInit ==
  /\ VegReadyState
  /\ retry = RetryIdle
  /\ PipeReadyState
  /\ TmInitState
  /\ AppReadyState
  /\ blend.animations

LoopNext ==
  \/ StartAnimation
  \/ PauseAnimation
  \/ FrameCallback
  \/ SourceEnded

LoopSpec == LoopInit /\ [][LoopNext]_vars

\* calls of loadWithRetry over its arguments and the outcomes of loadFn
RetryNext ==
  \/ RetryStart
  \/ RetryAttempt
  \/ RetryDelayElapsed

RetrySpec == Init /\ [][RetryNext]_vars

\* the blend logic over audio times that play forward and jump both ways
BlendInit ==
  /\ VegReadyState
  /\ retry = RetryIdle
  /\ PipeReadyState
  /\ TmInitState
  /\ AppReadyState

BlendNext == BlendFrame

BlendSpec == BlendInit /\ [][BlendNext]_vars

\* ------------------------------------------------------------------------
\* Properties of the vegetation manager
\* ------------------------------------------------------------------------

Live == Range(grassPatches) \cup Range(trees)

apart(a, b) ==
  (a.x - b.x) * (a.x - b.x) + (a.z - b.z) * (a.z - b.z)
    >= MIN_DISTANCE * MIN_DISTANCE

separated(s) == \A i, j \in 1..Len(s) : i # j => apart(s[i], s[j])

C2_WindowContainment_Original ==
  hist.op = "update" =>
    \A o \in Live : GENERATION_Z - SPAWN_JITTER <= o.z /\ o.z <= REMOVAL_Z

\* the farthest z an instance of the initial population is created at
InitialGrassFloor == Min(FIRST_PATCH_Z, 1 - GrassRowLimit)

InitialTreeFloor == TREE_ROW_START - ((TreeRows - 1) * TREE_ROW_STEP)

\* C2 amended: after any updateVegetation call (deltaZ >= 0) every live
\* instance has z <= REMOVAL_Z; an instance spawned by a recycle has z in
\* [GENERATION_Z - 50, REMOVAL_Z]; an instance of the initial population is
\* no farther than the farthest row of createInitialVegetation.
C2_WindowContainment ==
  hist.op = "update" =>
    /\ \A o \in Live :
         /\ o.z <= REMOVAL_Z
         /\ o.spawned => GENERATION_Z - SPAWN_JITTER <= o.z
    /\ \A o \in Range(grassPatches) : ~o.spawned => InitialGrassFloor <= o.z
    /\ \A o \in Range(trees) : ~o.spawned => InitialTreeFloor <= o.z

\* C2 witness: after an update that moved it, a recycled instance is live
\* beside trees of the initial population
C2_Witness ==
  /\ hist.op = "update"
  /\ hist.dz > 0
  /\ \E o \in Live : o.spawned /\ o.z > GENERATION_Z
  /\ \E o \in Range(trees) : ~o.spawned

\* a kind holds fewer instances than its initial population
Deficit ==
  \/ Len(grassPatches) < population.grass
  \/ Len(trees) < population.trees

\* C3: when a recycle spawn was skipped, a later updateVegetation call
\* attempts to spawn the missing replacement, even if no instance crosses
\* REMOVAL_Z in that call: an update that starts with a deficit calls
\* createNewVegetation at least once.
C3_RetryAfterExhaustion ==
  [][(hist'.op = "update" /\ isLoaded(resourcesLoaded) /\ Deficit)
       => hist'.calls > 0]_vars

noneCrosses(deltaZ) == \A o \in Live : o.z + deltaZ <= REMOVAL_Z

idsOf(s) == [i \in 1..Len(s) |-> s[i].id]

\* C4: an updateVegetation call in which no instance ends beyond REMOVAL_Z
\* leaves both lists unchanged in length, identity and order, creates no
\* instance, disposes nothing and leaves the scene as it was.
C4_Conservation ==
  [][(hist'.op = "update" /\ noneCrosses(hist'.dz))
       => /\ idsOf(grassPatches') = idsOf(grassPatches)
          /\ idsOf(trees') = idsOf(trees)
          /\ nextId' = nextId
          /\ disposed' = disposed
          /\ scene' = scene]_vars

\* C4 witness: a populated field was advanced by a positive deltaZ and
\* nothing crossed
C4_Witness ==
  /\ hist.op = "update"
  /\ hist.dz > 0
  /\ hist.calls = 0
  /\ isLoaded(resourcesLoaded)
  /\ Len(grassPatches) > 0
  /\ Len(trees) > 0

\* C5: createInitialVegetation called twice in a row leaves only instances
\* of the second call in the live lists, none of the first call attached
\* to the scene, and a grass population of the same size, not a doubled one.
C5_FreshPopulation ==
  [][(hist'.op = "create" /\ hist'.streak = 2)
       => /\ \A o \in Range(grassPatches') \cup Range(trees') : o.id >= nextId
          /\ scene' \cap (Ids(grassPatches) \cup Ids(trees)) = {}
          /\ scene' \cap {o.id : o \in Range(grassPatches') \cup Range(trees')}
               = Ids(grassPatches') \cup Ids(trees')
          /\ Len(grassPatches') = Len(grassPatches)]_vars

\* C5 witness: a second population was created right after a first
C5_Witness ==
  /\ hist.op = "create"
  /\ hist.streak = 2
  /\ Len(grassPatches) > 0
  /\ Len(trees) > 0
  /\ nextId > 1 + Len(grassPatches) + Len(trees)

\* C6 as stated: after any number of frames the live count of a kind
\* never exceeds its initial size P and never collapses to zero.
C6_PopulationBound_Original ==
  /\ population.grass > 0 =>
       Len(grassPatches) <= population.grass /\ Len(grassPatches) > 0
  /\ population.trees > 0 =>
       Len(trees) <= population.trees /\ Len(trees) > 0

\* C6 amended: the live count of a kind never exceeds its initial size P,
\* and the grass count never drops to zero; the tree count shrinks by one
\* at every exhausted spawn and can reach zero.
C6_PopulationBound ==
  /\ Len(grassPatches) <= population.grass
  /\ Len(trees) <= population.trees
  /\ population.grass > 0 => Len(grassPatches) > 0

\* C6 witness: after frames that recycled instances, a kind is short of
\* its initial size
C6_Witness ==
  /\ hist.op = "update"
  /\ hist.calls > 0
  /\ population.trees > 0
  /\ Len(trees) < population.trees
  /\ Len(grassPatches) < population.grass

\* C15: whenever a tree must be created while no variant model is loaded
\* (initial population or recycle spawn), createTree returns a placeholder
\* box and raises no error; stated here for the tree-manager variant, whose
\* operations that create trees then end without an error.
C15_PlaceholderFallback ==
  tmHist.op \in {"createInitialTrees", "updateTrees"} => tmHist.error = "none"

\* C17: dispose() called again right after dispose() leaves the state the
\* first call left (both lists and treeModels empty, both resourcesLoaded
\* flags false, nothing more disposed), and an updateVegetation call that
\* follows a dispose() moves nothing, spawns nothing and returns
\* {grass: 0, trees: 0}.
C17_DisposeRepeat ==
  [][/\ hist'.op = "dispose" =>
          /\ grassPatches' = <<>> /\ trees' = <<>> /\ treeModels' = 0
          /\ ~resourcesLoaded'.trees /\ ~resourcesLoaded'.grass
     /\ (hist.op = "dispose" /\ hist'.op = "dispose") =>
          /\ disposed' = disposed
          /\ <<grassPatches', trees', treeModels', resourcesLoaded', scene'>>
               = <<grassPatches, trees, treeModels, resourcesLoaded, scene>>
     /\ (hist.op = "dispose" /\ hist'.op = "update") =>
          /\ <<grassPatches', trees', scene', nextId'>>
               = <<grassPatches, trees, scene, nextId>>
          /\ hist'.calls = 0
          /\ updateVegetationResult(isLoaded(resourcesLoaded), grassPatches',
                                    trees') = [grass |-> 0, trees |-> 0]]_vars

\* C17 witness: a populated, loaded field was disposed twice in a row
C17_Witness ==
  /\ hist.op = "dispose"
  /\ hist.streak = 2
  /\ disposed # {}
  /\ grassPatches = <<>>

\* C18: between any two operations of the vegetation manager the set of
\* grass and tree objects attached to the scene equals the set held in the
\* live lists.
C18_Ownership ==
  hist.op \in {"create", "update", "dispose"} =>
    scene = Ids(grassPatches) \cup Ids(trees)

\* C20: within one updateVegetation call every live instance is first moved
\* by deltaZ and then tested against REMOVAL_Z at its moved position: an
\* instance whose moved z exceeds REMOVAL_Z is no longer live when the call
\* returns, an instance that stays is at its moved position, and no live
\* instance has z > REMOVAL_Z.
C20_AdvanceBeforeRecycle ==
  [][(hist'.op = "update" /\ isLoaded(resourcesLoaded)) =>
       /\ \A o \in Live :
            IF o.z + hist'.dz > REMOVAL_Z
            THEN o.id \notin Ids(grassPatches') \cup Ids(trees')
            ELSE \E n \in Range(grassPatches') \cup Range(trees') :
                   n.id = o.id /\ n.z = o.z + hist'.dz /\ n.x = o.x
       /\ \A n \in Range(grassPatches') \cup Range(trees') :
            n.z <= REMOVAL_Z]_vars

\* C20 witness: an update moved a field of which some instances crossed
\* REMOVAL_Z and others stayed
C20_Witness ==
  /\ hist.op = "update"
  /\ hist.dz > 0
  /\ hist.calls > 0
  /\ \E o \in Live : ~o.spawned
  /\ \E o \in Live : o.spawned

\* ------------------------------------------------------------------------
\* Properties of the pipeline
\* ------------------------------------------------------------------------
\* the stages of the last frame run by composer.render()
composerStages == SelectSeq(frame.log, LAMBDA x : x # "displacement")

C8_DepthFreshness ==
  frameNo > 0 =>
    /\ frame.sampled = frameNo
    /\ \E i, j \in 1..Len(frame.log) :
         i < j /\ frame.log[i] = "depth" /\ frame.log[j] = "blur"

\* C8 witness: a second frame sampled the depth rendered in it
C8_Witness == frameNo > 1 /\ frame.sampled = frameNo /\ depthTarget.stamp = frameNo

\* C9: after the resize handler ran for a viewport (w, h), the depth target
\* and the displacement target have size (w, h) and the resolution uniform
\* of the blur, chromatic aberration and displacement passes is (w, h).
C9_ResizeConsistency ==
  (phist.op = "resize" /\ passes # <<>>) =>
    /\ depthTarget.size = window
    /\ displacementTarget = window
    /\ resolution.blur = window
    /\ resolution.chromatic = window
    /\ resolution.displacement = window

\* C10: in every render of the blur pass no object on an excluded layer is
\* drawn into the depth target; when it returns every object's visible flag
\* is what it was and originalVisibility is empty; the main colour pass of
\* the frame draws every visible object, excluded or not.
C10_LayerExclusion ==
  [][frameNo' = frameNo + 1
       => /\ \A o \in Objects :
               onExcludedLayer(o, excludedLayers) => o \notin depthTarget'.drawn
          /\ depthTarget'.drawn
               = {o \in Objects : visible[o] /\ ~onExcludedLayer(o, excludedLayers)}
          /\ visible' = visible
          /\ DOMAIN originalVisibility' = {}
          /\ frame'.colorDrawn = {o \in Objects : visible[o]}]_vars

\* C10 witness: a frame drew a visible object of an excluded layer in the
\* main colour pass and not in the depth pass, and the object is visible
C10_Witness ==
  /\ frameNo > 0
  /\ phist.op = "frame"
  /\ \E o \in Objects :
       /\ onExcludedLayer(o, excludedLayers)
       /\ visible[o]
       /\ o \in frame.colorDrawn
       /\ o \notin depthTarget.drawn

\* nothing is left that could run: no loader will call back and no
\* timer is armed
Quiescent ==
  /\ phase # "boot"
  /\ \A a \in Assets : assets[a] # "pending"
  /\ \A k \in {"cloud", "trees"} : loads[k] # "pending"
  /\ audio.load # "pending"
  /\ vegetationWait # "waiting"
  /\ phase # "managerWait"
  /\ doubleCheck # "armed"

\* C13: the failure of an asset load, reported through the loader's error
\* callback, is never fatal to start-up: init() never ends in its catch
\* branch with completeSetup not run.
C13_LoadFailureNeverFatal == phase # "failed"

\* C14: no load can block start-up for ever: when no load failed, and some
\* loaders never call back, start-up has reached completeSetup by the time
\* every timer has fired and every other loader has called back.
C14_BoundedStartupWait ==
  (Quiescent /\ \A a \in Assets : assets[a] # "error") => isSetupComplete

\* ------------------------------------------------------------------------
\* Properties of playback
\* ------------------------------------------------------------------------
\* the state the work of a frame writes
frameWork == <<grassPatches, trees, textManager, frameNo, frame>>

\* C11: when pauseAnimation returns isAnimating is false, animationId is
\* null and the browser holds no frame callback; while the loop stays
\* paused no callback is held and no per-frame work (vegetation update,
\* text update, composer render) is done.
C11_PauseCancelsLoop ==
  [][/\ (isAnimating /\ ~isAnimating')
          => (animationId' = 0 /\ rafPending' = {})
     /\ (~isAnimating /\ ~isAnimating')
          => (rafPending' = {} /\ UNCHANGED frameWork)]_vars

\* C11 witness: the loop was paused after a frame callback had run and
\* rendered, so a callback was pending when pauseAnimation was called
C11_Witness ==
  /\ ahist.op = "pause"
  /\ ~isAnimating
  /\ rafPending = {}
  /\ animationId = 0
  /\ nextRafId >= 3
  /\ frameNo >= 1

\* C12: the elapsed time of the first frame after startAnimation is 0, that
\* of every other frame is the timestamp difference to the previous frame
\* capped at 0.1 s, and the distance handed to updateVegetation lies
\* between 0 and 3.
C12_NoTimeJump ==
  [][nextRafId' # nextRafId
       => /\ ahist'.dt = IF ~isAnimating THEN 0
                         ELSE Min(now' - lastTime, DELTA_CAP)
          /\ ahist'.dist >= 0
          /\ ahist'.dist <= 3
          /\ ahist'.threw # "beforeVegetation"
               => (hist'.op = "update" /\ hist'.dz = ahist'.dist)]_vars

\* C12 witness: a frame that came more than 0.1 s after the previous one
\* moved the vegetation by the capped distance
C12_Witness ==
  /\ ahist.op = "frame"
  /\ ahist.threw = "none"
  /\ ahist.dt = DELTA_CAP
  /\ hist.op = "update"
  /\ hist.dz = 3
  /\ grassPatches # <<>>

\* C16: after a frame whose work threw, no frame callback runs until
\* startAnimation is called again.
C16_FailStopFrames ==
  [][(ahist.op = "frame" /\ ahist.threw # "none")
       => ~(isAnimating /\ nextRafId' # nextRafId)]_vars

\* C19: when a frame of continuous playback reads a playback position
\* within the window of an entry of textAppearTimes, a text mesh of that
\* entry exists once the frame is done.
C19_TextAppears ==
  (ahist.op = "frame" /\ ahist.threw = "none" /\ audio.isPlaying)
    => \A i \in 1..Len(textAppearTimes) :
         Abs(ahist.audioTime - textAppearTimes[i].time) < TEXT_WINDOW
           => \E m \in textManager.textMeshes :
                m.text = textAppearTimes[i].text

\* C21: start-up is past phase 1 of loadAllResources only when the audio
\* buffer has been fetched and decoded: in phases 2 and 3, in the wait for
\* the manager and once completeSetup has run, isAudioLoaded is true.
C21_AudioLoadedFirst ==
  phase \in {"hdr", "rest", "managerWait", "ready"} => audio.isAudioLoaded

\* C22: when start-up has nothing left to run (completeSetup and its
\* 100 ms timer are done, no loader will call back) and the vegetation
\* resources are loaded, the initial population exists, whether they were
\* loaded before or after the 30 s timeout of initVegetation.
C22_GoLiveOnReadiness ==
  (Quiescent /\ isSetupComplete /\ isLoaded(resourcesLoaded))
    => grassPatches # <<>>

\* C23: every live tree, of the initial population or spawned on recycle,
\* stands at least TREE_CLEARANCE_FROM_CENTER away from the camera path:
\* |x| >= 5.
C23_TreeClearance ==
  \A i \in 1..Len(trees) : Abs(trees[i].x) >= TREE_CLEARANCE_FROM_CENTER

\* the geometry and material still in use: those of the live instances
\* and those of the variant templates in treeModels
resourcesInUse ==
  {grassPatches[i].res : i \in 1..Len(grassPatches)}
    \cup {trees[i].res : i \in 1..Len(trees)}
    \cup {0 - v : v \in 1..treeModels}

\* C26: no geometry or material that a live instance or a tree variant
\* template still uses has been disposed: a recycle releases only what
\* belonged to the recycled instance.
C26_RecycleReleasesOwn == disposed \cap resourcesInUse = {}

\* ------------------------------------------------------------------------
\* Properties of the resource loader
\* ------------------------------------------------------------------------
\* C25: loadWithRetry calls loadFn at most maxRetries times, returns the
\* value of the first call that succeeds, and when no call succeeds
\* rejects with an Error whose message is 'Failed after <maxRetries>
\* attempts: <last error message>', for every maxRetries >= 0.
C25_RetryBound ==
  /\ retry.calls <= retry.maxRetries
  /\ retry.state = "resolved" => retry.result = "asset"
  /\ retry.state = "rejected"
       => retry.error = [type |-> "Error", attempts |-> retry.maxRetries,
                         last |-> retry.lastError.message]

\* ------------------------------------------------------------------------
\* Properties of the blend
\* ------------------------------------------------------------------------
\* C29: after every frame, isInTransition implies hasTransitioned and a
\* transitionStartTime that is not null; after a frame whose audio time is
\* below transitionTime both flags are false.
C29_BlendFlags ==
  /\ blend.isInTransition
       => (blend.hasTransitioned /\ blend.transitionStartTime # 0 - 1)
  /\ (blend.audioTime # 0 - 1 /\ blend.audioTime < TRANSITION_TIME)
       => (~blend.hasTransitioned /\ ~blend.isInTransition)

\* C29 witness: a quick transition began in a frame that had jumped past
\* the blend window
C29_Witness ==
  /\ blend.isInTransition
  /\ blend.hasTransitioned
  /\ blend.transitionStartTime >= TRANSITION_TIME + TRANSITION_DURATION
  /\ blend.audioTime = blend.transitionStartTime

\* C24: pauseAudio saves the playback position, the position does not
\* change while the audio is paused, and the position right after the
\* next startAudio is the saved one, however much time passed in between.
C24_ResumeKeepsPosition ==
  [][/\ (audio.isPlaying /\ isAnimating /\ ~isAnimating')
          => (/\ ~audio'.isPlaying
              /\ getCurrentTime(audio', now') = getCurrentTime(audio, now))
     /\ (~audio.isPlaying /\ ~audio'.isPlaying)
          => \A step \in TimeSteps :
               getCurrentTime(audio', now' + step)
                 = getCurrentTime(audio, now)
     /\ (audio.isAudioLoaded /\ ~audio.isPlaying /\ nextRafId' # nextRafId
           /\ ahist'.by = "start")
          => ahist'.resumed = getCurrentTime(audio, now)]_vars

\* C24 witness: playback was paused at a position after the start of the
\* buffer and has been resumed there after some time
C24_Witness ==
  /\ ahist.op = "frame"
  /\ ahist.by = "start"
  /\ ahist.resumed > 0
  /\ audio.isPlaying
  /\ getCurrentTime(audio, now) = ahist.resumed
  /\ audio.startTime > 0

\* C27: at most one frame callback of animate is pending at any time, and
\* animate runs from startAnimation only while the loop is not animating.
C27_SingleFrameLoop ==
  [][/\ Cardinality(rafPending') <= 1
     /\ (nextRafId' # nextRafId /\ ahist'.by = "start") => ~isAnimating
     /\ (nextRafId' # nextRafId /\ ahist'.by = "callback")
          => (rafPending # {} /\ rafPending' = {animationId'})]_vars

\* C27 witness: the loop was started again after a pause and one callback
\* is pending
C27_Witness ==
  /\ ahist.op = "frame"
  /\ ahist.by = "start"
  /\ nextRafId >= 3
  /\ isAnimating
  /\ Cardinality(rafPending) = 1

\* C28: the 'ended' event of a source node stopped by pauseAudio, delivered
\* while a later playback is running, leaves that playback as it is:
\* isPlaying stays true and pauseTime and startTime keep their values.
C28_StaleEndedHarmless ==
  [][(audio'.stopped < audio.stopped /\ audio.isPlaying)
       => /\ audio'.isPlaying
          /\ audio'.pauseTime = audio.pauseTime
          /\ audio'.startTime = audio.startTime]_vars

====
